---- MODULE Spec2Model ----
(***************************************************************************)
(* Model of the chemical-reaction engine of life-sim (backend/src/lib.rs): *)
(* Emitter, Reaction and Receptor genes stepped against a chemical table   *)
(* (ChemicalMap) and a delta accumulator (DeltaMap).                       *)
(*                                                                         *)
(* Concentration is f32 in the source.  It is modelled as an exact         *)
(* rational n/d in lowest terms, extended with the IEEE-754 special values *)
(* +inf, -inf and NaN that a division by a zero stoichiometric coefficient *)
(* produces.  Rounding of f32 and the sign of zero are not modelled.       *)
(***************************************************************************)
EXTENDS Integers, Sequences, FiniteSets, TLC

VARIABLES genes, map, deltas, pos, signal, panicked, tickNo,
          calls, fires, before, last, prev, curr, start, tickMap, saved,
          twin

vars == <<genes, map, deltas, pos, signal, panicked, tickNo,
          calls, fires, before, last, prev, curr, start, tickMap, saved,
          twin>>

(* ----------------------------- bounds ---------------------------------- *)
\* longest genome drawn in Init
MaxGenes == 2
\* number of ticks (gene traversals) of one behaviour
MaxTicks == 6
\* calls of step on the single reaction of the counter specification
MaxCalls == 256

(* ------------------------ Concentration (f32) -------------------------- *)
U8 == 256

Abs(x) == IF x < 0 THEN -x ELSE x

RECURSIVE GCD(_, _)
GCD(a, b) == IF b = 0 THEN a ELSE GCD(b, a % b)

\* the finite value n/d (d # 0), in lowest terms with a positive denominator
Fin(n, d) ==
    LET s == IF d < 0 THEN -1 ELSE 1
        g == GCD(Abs(n), Abs(d))
    IN  [k |-> "fin", n |-> (s * n) \div g, d |-> (s * d) \div g]

NaN == [k |-> "nan", n |-> 0, d |-> 1]
Inf(s) == [k |-> "inf", n |-> s, d |-> 1]
Zero == Fin(0, 1)
One == Fin(1, 1)

IsNaN(a) == a.k = "nan"
IsInf(a) == a.k = "inf"
Sign(a) == IF a.n > 0 THEN 1 ELSE IF a.n < 0 THEN -1 ELSE 0

\* a < b; every comparison with NaN is false
Lt(a, b) ==
    /\ ~IsNaN(a)
    /\ ~IsNaN(b)
    /\ IF IsInf(a) /\ IsInf(b) THEN a.n < b.n
       ELSE IF IsInf(a) THEN a.n < 0
       ELSE IF IsInf(b) THEN b.n > 0
       ELSE a.n * b.d < b.n * a.d

Gt(a, b) == Lt(b, a)

Neg(a) == IF IsNaN(a) THEN NaN ELSE [a EXCEPT !.n = -a.n]

Add(a, b) ==
    IF IsNaN(a) \/ IsNaN(b) THEN NaN
    ELSE IF IsInf(a) /\ IsInf(b) THEN (IF a.n = b.n THEN a ELSE NaN)
    ELSE IF IsInf(a) THEN a
    ELSE IF IsInf(b) THEN b
    ELSE Fin(a.n * b.d + b.n * a.d, a.d * b.d)

Sub(a, b) == Add(a, Neg(b))

Mul(a, b) ==
    IF IsNaN(a) \/ IsNaN(b) THEN NaN
    ELSE IF IsInf(a) \/ IsInf(b)
         THEN (IF Sign(a) * Sign(b) = 0 THEN NaN ELSE Inf(Sign(a) * Sign(b)))
    ELSE Fin(a.n * b.n, a.d * b.d)

Div(a, b) ==
    IF IsNaN(a) \/ IsNaN(b) THEN NaN
    ELSE IF IsInf(a) /\ IsInf(b) THEN NaN
    ELSE IF IsInf(a) THEN Inf(IF Sign(b) < 0 THEN -Sign(a) ELSE Sign(a))
    ELSE IF IsInf(b) THEN Zero
    ELSE IF b.n = 0 THEN (IF a.n = 0 THEN NaN ELSE Inf(Sign(a)))
    ELSE Fin(a.n * b.d, a.d * b.n)

\* f32::min: when one argument is NaN the other is returned
FMin(a, b) ==
    IF IsNaN(a) THEN b
    ELSE IF IsNaN(b) THEN a
    ELSE IF Lt(b, a) THEN b ELSE a

(* ------------------------------ data ----------------------------------- *)
Chemical(id, concentration) == [id |-> id, concentration |-> concentration]

Emitter(chemical, gain) ==
    [gene |-> "Emitter", chemical |-> chemical, gain |-> gain]

Normal(a, b, c, d) == [type |-> "Normal", chems |-> <<a, b, c, d>>]
Fusion(a, b, c) == [type |-> "Fusion", chems |-> <<a, b, c>>]
Decay(a) == [type |-> "Decay", chems |-> <<a>>]
Catalytic(a, b, c) == [type |-> "Catalytic", chems |-> <<a, b, c>>]
CatalyticBreakdown(a, b) == [type |-> "CatalyticBreakdown", chems |-> <<a, b>>]

\* Reaction::new: the tick counter starts at 0
Reaction(kind, rate) ==
    [gene |-> "Reaction", kind |-> kind, rate |-> rate, tick |-> 0]

Receptor(kind, chemical, gain, threshold) ==
    [gene |-> "Receptor", kind |-> kind, chemical |-> chemical,
     gain |-> gain, threshold |-> threshold]

\* HashMap::new()
EmptyMap == [x \in {} |-> Zero]

\* deltas.entry(id).or_insert(0.0), read
Entry(d, id) == IF id \in DOMAIN d THEN d[id] ELSE Zero

\* the write through the entry reference
Put(d, id, v) == [x \in (DOMAIN d) \cup {id} |-> IF x = id THEN v ELSE d[x]]

(* ----------------------------- Emitter ---------------------------------- *)
\* an emitter that does not clamp
EmitterStepNoClamp(e, d) ==
    Put(d, e.chemical, Add(Entry(d, e.chemical), e.gain))

\* an emitter that also clamps from below, as the reactions do
EmitterStepClampBoth(e, d) ==
    LET val == Add(Entry(d, e.chemical), e.gain)
    IN  Put(d, e.chemical,
            IF Gt(val, One) THEN One ELSE IF Lt(val, Zero) THEN Zero ELSE val)

\* Emitter::step: add the gain, clamp from above only
EmitterStep(e, d) ==
    LET val == Add(Entry(d, e.chemical), e.gain)
    IN  Put(d, e.chemical, IF Gt(val, One) THEN One ELSE val)

(* ----------------------------- Reaction -------------------------------- *)
\* self.tick.get() + 1 on a u8.  At 255 a release build wraps to 0 and a
\* debug build panics; a counter built by Reaction::new stays below 255, so
\* neither outcome is reachable here.
Increment(t) == (t + 1) % U8

\* a counter that is one static shared by every Reaction instead of a field
SetTickStatic(gs, others, i, t) ==
    LET all(seq) == [j \in DOMAIN seq |->
                        IF seq[j].gene = "Reaction" THEN [seq[j] EXCEPT !.tick = t]
                        ELSE seq[j]]
    IN  [self |-> all(gs), other |-> all(others)]

\* self.tick.set(t) on gene i of the genome gs: the Cell<u8> is a field of
\* that Reaction; the genes of gs and of any other genome keep their own
SetTick(gs, others, i, t) ==
    [self |-> [gs EXCEPT ![i].tick = t], other |-> others]

\* a rate check that is off by one
BelowRateInclusive(t, rate) == t <= rate

\* a test that never lets a reaction of rate 0 into its body
BelowRateZeroNever(t, rate) == rate = 0 \/ t < rate

\* the early return: the body is skipped while the counter is below the rate
BelowRate(t, rate) == t < rate

\* a clamp that forgets the lower bound
ClampUpperOnly(v) == IF Gt(v, One) THEN One ELSE v

\* if *val > 1.0 { *val = 1.0 } else if *val < 0.0 { *val = 0.0 }
Clamp01(v) == IF Gt(v, One) THEN One ELSE IF Lt(v, Zero) THEN Zero ELSE v

\* the `update` closure: add or subtract n * c.concentration, then clamp
Update(d, c, add, n) ==
    LET val == Entry(d, c.id)
        amount == Mul(n, c.concentration)
    IN  Put(d, c.id, Clamp01(IF add THEN Add(val, amount) ELSE Sub(val, amount)))

\* map[&c.id].concentration / c.concentration
Ratio(m, c) == Div(m[c.id].concentration, c.concentration)

\* the extent n of a firing
Extent(kind, m) ==
    IF kind.type = "Decay"
    THEN Ratio(m, kind.chems[1])
    ELSE FMin(Ratio(m, kind.chems[1]), Ratio(m, kind.chems[2]))

\* the identifiers a firing looks up in the table (map[&id] panics when absent)
Lookups(kind) ==
    IF kind.type = "Decay"
    THEN {kind.chems[1].id}
    ELSE {kind.chems[1].id, kind.chems[2].id}

\* the chemicals of a kind whose accumulator entries a firing writes, in order
Written(kind) ==
    CASE kind.type = "Normal" -> kind.chems
      [] kind.type = "Fusion" -> kind.chems
      [] kind.type = "Decay" -> kind.chems
      [] kind.type = "Catalytic" -> <<kind.chems[2], kind.chems[3]>>
      [] kind.type = "CatalyticBreakdown" -> <<kind.chems[2]>>

\* a body that consumes the catalyst A of the two catalytic kinds as well
ReactionBodyCatalystConsumed(kind, m, d) ==
    LET n == Extent(kind, m)
        c == kind.chems
    IN  CASE kind.type = "Normal" ->
               Update(Update(Update(Update(d, c[1], FALSE, n), c[2], FALSE, n),
                             c[3], TRUE, n), c[4], TRUE, n)
          [] kind.type = "Fusion" ->
               Update(Update(Update(d, c[1], FALSE, n), c[2], FALSE, n), c[3], TRUE, n)
          [] kind.type = "Decay" ->
               Update(d, c[1], FALSE, n)
          [] kind.type = "Catalytic" ->
               Update(Update(Update(d, c[1], FALSE, n), c[2], FALSE, n), c[3], TRUE, n)
          [] kind.type = "CatalyticBreakdown" ->
               Update(Update(d, c[1], FALSE, n), c[2], FALSE, n)

\* the match on self.kind, all lookups having succeeded
ReactionBody(kind, m, d) ==
    LET n == Extent(kind, m)
        c == kind.chems
    IN  CASE kind.type = "Normal" ->
               Update(Update(Update(Update(d, c[1], FALSE, n), c[2], FALSE, n),
                             c[3], TRUE, n), c[4], TRUE, n)
          [] kind.type = "Fusion" ->
               Update(Update(Update(d, c[1], FALSE, n), c[2], FALSE, n), c[3], TRUE, n)
          [] kind.type = "Decay" ->
               Update(d, c[1], FALSE, n)
          [] kind.type = "Catalytic" ->
               Update(Update(d, c[2], FALSE, n), c[3], TRUE, n)
          [] kind.type = "CatalyticBreakdown" ->
               Update(d, c[2], FALSE, n)

\* a step that looks the reactants up before it resets the counter
ReactionStepLookupFirst(r, m, d) ==
    LET t == Increment(r.tick)
    IN  IF BelowRate(t, r.rate)
        THEN [tick |-> t, fired |-> FALSE, panic |-> FALSE, deltas |-> d]
        ELSE IF Lookups(r.kind) \subseteq DOMAIN m
        THEN [tick |-> 0, fired |-> TRUE, panic |-> FALSE,
              deltas |-> ReactionBody(r.kind, m, d)]
        ELSE [tick |-> t, fired |-> TRUE, panic |-> TRUE, deltas |-> d]

\* a step that leaves the counter at the rate when the body is entered
ReactionStepNoReset(r, m, d) ==
    LET t == Increment(r.tick)
    IN  IF BelowRate(t, r.rate)
        THEN [tick |-> t, fired |-> FALSE, panic |-> FALSE, deltas |-> d]
        ELSE IF Lookups(r.kind) \subseteq DOMAIN m
        THEN [tick |-> t, fired |-> TRUE, panic |-> FALSE,
              deltas |-> ReactionBody(r.kind, m, d)]
        ELSE [tick |-> t, fired |-> TRUE, panic |-> TRUE, deltas |-> d]

\* Reaction::step as a function of the gene, the table and the accumulator:
\* the counter afterwards, whether the body was entered, whether a lookup
\* panicked, and the accumulator afterwards
ReactionStep(r, m, d) ==
    LET t == Increment(r.tick)
    IN  IF BelowRate(t, r.rate)
        THEN [tick |-> t, fired |-> FALSE, panic |-> FALSE, deltas |-> d]
        ELSE IF Lookups(r.kind) \subseteq DOMAIN m
        THEN [tick |-> 0, fired |-> TRUE, panic |-> FALSE,
              deltas |-> ReactionBody(r.kind, m, d)]
        ELSE [tick |-> 0, fired |-> TRUE, panic |-> TRUE, deltas |-> d]

(* ----------------------------- Receptor -------------------------------- *)
None == [some |-> FALSE, val |-> Zero]
Some(v) == [some |-> TRUE, val |-> v]

\* a receptor that ignores the accumulator
ProjectedNoDelta(p, r, d) == p

\* let curr = prev - deltas.get(&self.chemical).map(|u| *u).unwrap_or(0.0)
Projected(p, r, d) == Sub(p, Entry(d, r.chemical))

\* a crossing test whose comparison of prev is not strict
CrossingNonStrict(r, p, c) ==
    IF r.kind = "LowerBound"
    THEN (IF ~Lt(p, r.threshold) /\ Lt(c, r.threshold) THEN Some(Mul(c, r.gain)) ELSE None)
    ELSE (IF ~Gt(p, r.threshold) /\ Gt(c, r.threshold) THEN Some(Mul(c, r.gain)) ELSE None)

\* the match on self.kind
Crossing(r, p, c) ==
    IF r.kind = "LowerBound"
    THEN (IF Gt(p, r.threshold) /\ Lt(c, r.threshold) THEN Some(Mul(c, r.gain)) ELSE None)
    ELSE (IF Lt(p, r.threshold) /\ Gt(c, r.threshold) THEN Some(Mul(c, r.gain)) ELSE None)

\* Receptor::step, the watched chemical being in the table: the locals prev
\* and curr and the returned Option
ReceptorStep(r, m, d) ==
    LET p == m[r.chemical].concentration
        c == Projected(p, r, d)
    IN  [prev |-> p, curr |-> c, out |-> Crossing(r, p, c)]

\* a receptor that reads its delta through entry().or_insert(0.0)
ReceptorDeltasInserting(r, m, d) == Put(d, r.chemical, Entry(d, r.chemical))

\* the accumulator after Receptor::step, which borrows it immutably
\* (deltas: &DeltaMap) and reads it with get
ReceptorDeltas(r, m, d) == d

(* --------------------------- persistence ------------------------------- *)
\* The persisted form is the JSON document that the derived RustcEncodable
\* implementations write through rustc_serialize::json: a struct is an object,
\* an enum variant with a payload is {"variant": name, "fields": [...]}, a
\* unit variant is its name, a Vec is an array, Cell<u8> is its content, and
\* a number is its decimal digits.  A float that is NaN or infinite is
\* written as null, and null is read back as NaN.
JNull == [j |-> "null"]

RECURSIVE Digits(_)
Digits(n) == IF n < 10 THEN <<n>> ELSE Append(Digits(n \div 10), n % 10)

RECURSIVE Value(_)
Value(ds) ==
    IF ds = <<>> THEN 0
    ELSE Value(SubSeq(ds, 1, Len(ds) - 1)) * 10 + ds[Len(ds)]

RECURSIVE Fraction(_, _)
Fraction(r, d) ==
    IF r = 0 THEN <<>> ELSE <<(10 * r) \div d>> \o Fraction((10 * r) % d, d)

RECURSIVE Pow10(_)
Pow10(k) == IF k = 0 THEN 1 ELSE 10 * Pow10(k - 1)

EncodeU8(n) == [j |-> "num", neg |-> FALSE, int |-> Digits(n), frac |-> <<>>]
DecodeU8(j) == Value(j.int)

EncodeF32(v) ==
    IF IsNaN(v) \/ IsInf(v) THEN JNull
    ELSE LET a == Abs(v.n)
             f == Fraction(a % v.d, v.d)
         IN  [j |-> "num", neg |-> v.n < 0, int |-> Digits(a \div v.d),
              frac |-> IF f = <<>> THEN <<0>> ELSE f]

DecodeF32(j) ==
    IF j.j = "null" THEN NaN
    ELSE LET k == Len(j.frac)
             m == Value(j.int) * Pow10(k) + Value(j.frac)
         IN  Fin(IF j.neg THEN -m ELSE m, Pow10(k))

EncodeChemical(c) ==
    [id |-> EncodeU8(c.id), concentration |-> EncodeF32(c.concentration)]
DecodeChemical(j) == Chemical(DecodeU8(j.id), DecodeF32(j.concentration))

EncodeReactionType(kind) ==
    [variant |-> kind.type,
     fields |-> [i \in DOMAIN kind.chems |-> EncodeChemical(kind.chems[i])]]
DecodeReactionType(j) ==
    [type |-> j.variant,
     chems |-> [i \in DOMAIN j.fields |-> DecodeChemical(j.fields[i])]]

EncodeEmitter(e) == [chemical |-> EncodeU8(e.chemical), gain |-> EncodeF32(e.gain)]
DecodeEmitter(j) == Emitter(DecodeU8(j.chemical), DecodeF32(j.gain))

EncodeReaction(r) ==
    [kind |-> EncodeReactionType(r.kind), rate |-> EncodeU8(r.rate),
     tick |-> EncodeU8(r.tick)]

\* a decoder that rebuilds the reaction with Reaction::new, its counter at 0
DecodeReactionFresh(j) == Reaction(DecodeReactionType(j.kind), DecodeU8(j.rate))

DecodeReaction(j) ==
    [gene |-> "Reaction", kind |-> DecodeReactionType(j.kind),
     rate |-> DecodeU8(j.rate), tick |-> DecodeU8(j.tick)]

EncodeReceptor(r) ==
    [kind |-> r.kind, chemical |-> EncodeU8(r.chemical),
     gain |-> EncodeF32(r.gain), threshold |-> EncodeF32(r.threshold)]
DecodeReceptor(j) ==
    Receptor(j.kind, DecodeU8(j.chemical), DecodeF32(j.gain), DecodeF32(j.threshold))

EncodeGene(g) ==
    [variant |-> g.gene,
     fields |-> << CASE g.gene = "Emitter" -> EncodeEmitter(g)
                     [] g.gene = "Reaction" -> EncodeReaction(g)
                     [] g.gene = "Receptor" -> EncodeReceptor(g) >>]
DecodeGene(j) ==
    CASE j.variant = "Emitter" -> DecodeEmitter(j.fields[1])
      [] j.variant = "Reaction" -> DecodeReaction(j.fields[1])
      [] j.variant = "Receptor" -> DecodeReceptor(j.fields[1])

\* encode(self) of Genome::save
Encode(gs) == [genes |-> [i \in DOMAIN gs |-> EncodeGene(gs[i])]]

\* decode(&data) of Genome::load
Decode(j) == [i \in DOMAIN j.genes |-> DecodeGene(j.genes[i])]

(* ------------------------- inputs of the model ------------------------- *)
\* chemical tables the organism supplies: identifiers 0, 1, 2 with
\* concentrations in [0,1], and two tables that lack an identifier
Table(c0, c1, c2) ==
    [x \in {0, 1, 2} |->
        Chemical(x, IF x = 0 THEN c0 ELSE IF x = 1 THEN c1 ELSE c2)]

Without(m, id) == [x \in (DOMAIN m) \ {id} |-> m[x]]

Tables ==
    { Table(Fin(3, 5), Fin(1, 2), Zero),
      Table(Fin(2, 5), Fin(1, 5), Zero),
      Table(Fin(1, 2), One, Fin(1, 10)),
      Table(Zero, Fin(1, 5), Zero),
      Without(Table(Fin(2, 5), Fin(1, 5), Zero), 2),
      Without(Table(Fin(3, 5), Fin(1, 5), Zero), 0) }

\* the genes a genome is built from
GenePool ==
    { Emitter(0, Fin(3, 10)),
      Emitter(0, Fin(-3, 10)),
      Emitter(1, Fin(4, 5)),
      Reaction(Decay(Chemical(0, One)), 1),
      Reaction(Decay(Chemical(0, Zero)), 1),
      Reaction(Fusion(Chemical(0, One), Chemical(1, One), Chemical(2, One)), 1),
      Reaction(Fusion(Chemical(0, Fin(2, 1)), Chemical(1, One), Chemical(2, Fin(1, 2))), 3),
      Reaction(Normal(Chemical(0, One), Chemical(1, One), Chemical(2, One),
                      Chemical(1, Fin(2, 1))), 2),
      Reaction(Catalytic(Chemical(0, One), Chemical(1, One), Chemical(2, One)), 1),
      Reaction(CatalyticBreakdown(Chemical(0, One), Chemical(1, One)), 0),
      Receptor("LowerBound", 0, Fin(2, 1), Fin(1, 2)),
      Receptor("UpperBound", 0, Fin(2, 1), Fin(1, 2)) }

\* genomes that mix the three gene kinds, in every order; one emitter has an
\* infinite gain
MixedGenomes ==
    LET es == {Emitter(1, Fin(4, 5)), Emitter(1, Inf(1))}
        rs == {Reaction(Fusion(Chemical(0, Fin(2, 1)), Chemical(1, One),
                               Chemical(2, Fin(1, 2))), 3),
               Reaction(Normal(Chemical(0, One), Chemical(1, One), Chemical(2, One),
                               Chemical(1, Fin(2, 1))), 2)}
        cs == {Receptor("LowerBound", 0, Fin(2, 1), Fin(1, 2))}
    IN  UNION { {<<e, r, c>>, <<e, c, r>>, <<r, e, c>>, <<r, c, e>>, <<c, e, r>>, <<c, r, e>>}
                : <<e, r, c>> \in es \X rs \X cs }

\* Genome::new over every gene sequence of length 1..MaxGenes and over the
\* mixed genomes
Genomes == UNION { [1..n -> GenePool] : n \in 1..MaxGenes } \cup MixedGenomes

(* --------------------------- state machine ----------------------------- *)
\* genes     the genome's gene sequence, each Reaction with its tick counter
\* map       the chemical table supplied for the tick
\* deltas    the delta accumulator of the tick
\* pos       position of Genome::iter in the traversal of the tick
\* signal    the Option the last Receptor::step returned
\* panicked  a table lookup failed: the process has aborted
\* tickNo    number of the tick
\* calls     per gene, the number of step calls made on it
\* fires     per gene, the numbers of the calls that entered the reaction body
\* before    the accumulator before the last step
\* last      index of the gene stepped last (0: none in this tick, or the
\*           genome was loaded since)
\* prev,curr the locals of the last Receptor::step
\* start     the gene sequence at the start of the tick
\* tickMap   the chemical table at the start of the tick
\* twin      a second Genome, built from the same genes and never stepped
\* saved     the gene sequence that the last action saved and loaded back
\*           (<<>> when the last action was not a save and load)
Init ==
    /\ genes \in Genomes
    /\ map \in Tables
    /\ deltas = EmptyMap
    /\ pos = 1
    /\ signal = None
    /\ panicked = FALSE
    /\ tickNo = 1
    /\ calls = [i \in DOMAIN genes |-> 0]
    /\ fires = [i \in DOMAIN genes |-> {}]
    /\ before = EmptyMap
    /\ last = 0
    /\ prev = Zero
    /\ curr = Zero
    /\ start = genes
    /\ tickMap = map
    /\ saved = <<>>
    /\ twin = genes

\* the iterator has a gene of the given variant to hand out
AtGene(variant) ==
    /\ ~panicked
    /\ pos <= Len(genes)
    /\ genes[pos].gene = variant

StepEmitter ==
    /\ AtGene("Emitter")
    /\ deltas' = EmitterStep(genes[pos], deltas)
    /\ calls' = [calls EXCEPT ![pos] = @ + 1]
    /\ before' = deltas
    /\ last' = pos
    /\ pos' = pos + 1
    /\ saved' = <<>>
    /\ UNCHANGED <<genes, map, signal, panicked, tickNo, fires, prev, curr,
                   start, tickMap, twin>>

StepReaction ==
    /\ AtGene("Reaction")
    /\ LET res == ReactionStep(genes[pos], map, deltas)
       IN  /\ genes' = SetTick(genes, twin, pos, res.tick).self
           /\ twin' = SetTick(genes, twin, pos, res.tick).other
           /\ deltas' = res.deltas
           /\ panicked' = res.panic
           /\ fires' = IF res.fired
                       THEN [fires EXCEPT ![pos] = @ \cup {calls[pos] + 1}]
                       ELSE fires
           /\ pos' = IF res.panic THEN pos ELSE pos + 1
    /\ calls' = [calls EXCEPT ![pos] = @ + 1]
    /\ before' = deltas
    /\ last' = pos
    /\ saved' = <<>>
    /\ UNCHANGED <<map, signal, tickNo, prev, curr, start, tickMap>>

StepReceptor ==
    /\ AtGene("Receptor")
    /\ IF genes[pos].chemical \in DOMAIN map
       THEN LET res == ReceptorStep(genes[pos], map, deltas)
            IN  /\ signal' = res.out
                /\ prev' = res.prev
                /\ curr' = res.curr
                /\ pos' = pos + 1
                /\ panicked' = FALSE
       ELSE /\ panicked' = TRUE
            /\ UNCHANGED <<signal, prev, curr, pos>>
    /\ calls' = [calls EXCEPT ![pos] = @ + 1]
    /\ before' = deltas
    /\ last' = pos
    /\ deltas' = ReceptorDeltas(genes[pos], map, deltas)
    /\ saved' = <<>>
    /\ UNCHANGED <<genes, map, tickNo, fires, start, tickMap, twin>>

\* the organism starts the next tick: a table of its own and a fresh, empty
\* accumulator, the genome traversed again from its first gene
NewTick ==
    /\ ~panicked
    /\ pos > Len(genes)
    /\ tickNo < MaxTicks
    /\ tickNo' = tickNo + 1
    /\ map' \in Tables
    /\ deltas' = EmptyMap
    /\ pos' = 1
    /\ last' = 0
    /\ before' = EmptyMap
    /\ start' = genes
    /\ tickMap' = map'
    /\ saved' = <<>>
    /\ UNCHANGED <<genes, signal, panicked, calls, fires, prev, curr, twin>>

\* genome.save(path) followed by Genome::load(path), after a complete
\* traversal: the genome is replaced by the decoded one
SaveLoad ==
    /\ ~panicked
    /\ pos > Len(genes)
    /\ saved = <<>>
    /\ genes' = Decode(Encode(genes))
    /\ saved' = genes
    /\ last' = 0
    /\ UNCHANGED <<map, deltas, pos, signal, panicked, tickNo, calls, fires,
                   before, prev, curr, start, tickMap, twin>>

Next == StepEmitter \/ StepReaction \/ StepReceptor \/ NewTick \/ SaveLoad

Spec == Init /\ [][Next]_vars

\* ---- one Reaction of every rate a u8 holds, stepped call after call ----

\* the rates Reaction::new accepts
Rates == 0..(U8 - 1)

\* a genome of one Decay reaction built by Reaction::new with any rate
InitCounter ==
    /\ genes \in {<<Reaction(Decay(Chemical(0, One)), rate)>> : rate \in Rates}
    /\ map = Table(Fin(3, 5), Fin(1, 2), Zero)
    /\ deltas = EmptyMap
    /\ pos = 1
    /\ signal = None
    /\ panicked = FALSE
    /\ tickNo = 1
    /\ calls = [i \in DOMAIN genes |-> 0]
    /\ fires = [i \in DOMAIN genes |-> {}]
    /\ before = EmptyMap
    /\ last = 0
    /\ prev = Zero
    /\ curr = Zero
    /\ start = genes
    /\ tickMap = map
    /\ saved = <<>>
    /\ twin = genes

\* the organism starts the next tick with the same table and a fresh, empty
\* accumulator; the tick count is left alone, the calls are bounded instead
NextCall ==
    /\ ~panicked
    /\ pos > Len(genes)
    /\ calls[1] < MaxCalls
    /\ deltas' = EmptyMap
    /\ pos' = 1
    /\ last' = 0
    /\ before' = EmptyMap
    /\ start' = genes
    /\ saved' = <<>>
    /\ UNCHANGED <<genes, map, signal, panicked, tickNo, calls, fires, prev,
                   curr, tickMap, twin>>

NextCounter == StepReaction \/ NextCall

SpecCounter == InitCounter /\ [][NextCounter]_vars

(* ------------------------------ claims --------------------------------- *)
\* the last step was a step of the given gene variant and returned normally
LastIs(variant) ==
    /\ last > 0
    /\ ~panicked
    /\ genes[last].gene = variant

\* the last step was a Reaction step that entered the reaction body
FiredLast ==
    /\ last > 0
    /\ genes[last].gene = "Reaction"
    /\ calls[last] \in fires[last]

\* C1: a Reaction with rate r >= 1 built by Reaction::new enters its body on
\* exactly the calls numbered r, 2r, 3r, ...; a call that does not enter the
\* body only increments the counter and leaves the accumulator as it was.
C1_RateLimiting ==
    \A i \in DOMAIN genes :
        (genes[i].gene = "Reaction" /\ genes[i].rate >= 1) =>
            /\ fires[i] = {k \in 1..calls[i] : k % genes[i].rate = 0}
            /\ genes[i].tick = calls[i] % genes[i].rate
            /\ (last = i /\ calls[i] \notin fires[i]) =>
                   /\ deltas = before
                   /\ genes[i].tick = start[i].tick + 1
                   /\ ~panicked

\* a rate-3 reaction after six calls: it fired on calls 3 and 6 only
C1_Witness ==
    \E i \in DOMAIN genes :
        /\ genes[i].gene = "Reaction"
        /\ genes[i].rate = 3
        /\ calls[i] = 6
        /\ fires[i] = {3, 6}

\* C2: Receptor::step computes curr = prev + (accumulator delta of the watched
\* chemical, 0 if absent), prev being the table's concentration; with
\* prev = 0.6 and delta = -0.3 a LowerBound receptor with threshold 0.5 and
\* gain 2.0 returns 0.6, and with prev = 0.4 it returns no signal.
C2_ProjectedIsPrevPlusDelta ==
    LastIs("Receptor") =>
        LET r == genes[last]
            delta == Entry(deltas, r.chemical)
        IN  /\ prev = map[r.chemical].concentration
            /\ curr = Add(prev, delta)
            /\ (/\ r.kind = "LowerBound"
                /\ r.threshold = Fin(1, 2)
                /\ r.gain = Fin(2, 1)
                /\ delta = Fin(-3, 10)) =>
                   /\ prev = Fin(3, 5) => signal = Some(Fin(3, 5))
                   /\ prev = Fin(2, 5) => signal = None

\* the identifiers of the chemicals of a reaction kind are pairwise distinct
DistinctIds(kind) ==
    \A i, j \in DOMAIN kind.chems :
        i # j => kind.chems[i].id # kind.chems[j].id

\* C3: a Fusion A+B->C firing against an empty accumulator leaves
\* A: -n*stoich(A), B: -n*stoich(B), C: +n*stoich(C) in it, with
\* n = min(table[A]/stoich(A), table[B]/stoich(B)).
C3_FusionDeltas ==
    (FiredLast /\ ~panicked /\ before = EmptyMap
       /\ genes[last].kind.type = "Fusion" /\ DistinctIds(genes[last].kind)) =>
        LET a == genes[last].kind.chems[1]
            b == genes[last].kind.chems[2]
            c == genes[last].kind.chems[3]
            n == FMin(Div(map[a.id].concentration, a.concentration),
                      Div(map[b.id].concentration, b.concentration))
        IN  /\ DOMAIN deltas = {a.id, b.id, c.id}
            /\ deltas[a.id] = Neg(Mul(n, a.concentration))
            /\ deltas[b.id] = Neg(Mul(n, b.concentration))
            /\ deltas[c.id] = Mul(n, c.concentration)

\* C4: a Decay of A firing against an empty accumulator leaves minus the
\* table concentration of A in A's entry (-0.5 for stoich 1, concentration 0.5).
C4_DecayDelta ==
    (FiredLast /\ ~panicked /\ before = EmptyMap
       /\ genes[last].kind.type = "Decay"
       /\ genes[last].kind.chems[1].concentration = One) =>
        LET a == genes[last].kind.chems[1]
        IN  deltas[a.id] = Neg(map[a.id].concentration)

\* v is a number of [0,1]
InUnit(v) == ~IsNaN(v) /\ ~Lt(v, Zero) /\ ~Gt(v, One)

\* C5 as stated: every accumulator entry a firing Reaction wrote lies in
\* [0,1] after the step, whatever the prior entry, the table and the
\* stoichiometric coefficients.
C5_WrittenInUnit ==
    (FiredLast /\ ~panicked) =>
        \A i \in DOMAIN Written(genes[last].kind) :
            InUnit(deltas[Written(genes[last].kind)[i].id])

\* some chemical of the kind has the stoichiometric coefficient 0
ZeroStoich(kind) ==
    \E i \in DOMAIN kind.chems : kind.chems[i].concentration = Zero

\* the value the step computes for the entry of c before clamping it, for a
\* kind whose chemicals are pairwise distinct
Unclamped(kind, c, add) ==
    LET amount == Mul(Extent(kind, map), c.concentration)
    IN  IF add THEN Add(Entry(before, c.id), amount)
        ELSE Sub(Entry(before, c.id), amount)

\* the chemical written at place i of Written is a product (added)
IsProduct(kind, i) ==
    \/ kind.type = "Normal" /\ i >= 3
    \/ kind.type = "Fusion" /\ i = 3
    \/ kind.type = "Catalytic" /\ i = 2

\* C5 amended: every accumulator entry a firing Reaction wrote lies in [0,1]
\* after the step unless the value computed for it is NaN, which both
\* comparisons of the clamp let through; a NaN arises only from a zero
\* stoichiometric coefficient or a NaN prior entry.  A computed value above
\* 1.0 is stored as 1.0 and one below 0.0 as 0.0.
C5_WrittenInUnitOrNaN ==
    (FiredLast /\ ~panicked) =>
        LET kind == genes[last].kind
            w == Written(kind)
        IN  \A i \in DOMAIN w :
                LET v == deltas[w[i].id]
                    x == Unclamped(kind, w[i], IsProduct(kind, i))
                IN  /\ InUnit(v) \/ IsNaN(v)
                    /\ IsNaN(v) => (ZeroStoich(kind) \/ IsNaN(Entry(before, w[i].id)))
                    /\ (DistinctIds(kind) /\ Gt(x, One)) => v = One
                    /\ (DistinctIds(kind) /\ Lt(x, Zero)) => v = Zero

\* a firing reaction whose computed value for an entry was negative and was
\* stored as 0.0
C5_Witness ==
    /\ FiredLast
    /\ ~panicked
    /\ DistinctIds(genes[last].kind)
    /\ \E i \in DOMAIN Written(genes[last].kind) :
          LET c == Written(genes[last].kind)[i]
          IN  /\ Lt(Unclamped(genes[last].kind, c, IsProduct(genes[last].kind, i)), Zero)
              /\ deltas[c.id] = Zero

\* C6: Emitter::step sets accumulator[chemical] to min(old + gain, 1.0), old
\* being the existing entry or 0; a negative result is kept, no other entry
\* changes, and every call does so.
C6_EmitterStep ==
    LastIs("Emitter") =>
        LET e == genes[last]
            sum == Add(Entry(before, e.chemical), e.gain)
        IN  /\ DOMAIN deltas = (DOMAIN before) \cup {e.chemical}
            /\ deltas[e.chemical] = (IF Lt(One, sum) THEN One ELSE sum)
            /\ \A x \in (DOMAIN before) \ {e.chemical} : deltas[x] = before[x]

\* an emitter step that left a negative entry in the accumulator
C6_Witness ==
    /\ LastIs("Emitter")
    /\ Lt(deltas[genes[last].chemical], Zero)

\* C7: a LowerBound receptor returns a signal exactly when prev > threshold
\* and curr < threshold, an UpperBound receptor exactly when prev < threshold
\* and curr > threshold; the signal is curr * gain; when prev or curr equals
\* the threshold no signal is returned.
C7_CrossingStrict ==
    LastIs("Receptor") =>
        LET r == genes[last]
            t == r.threshold
        IN  /\ signal.some <=>
                   \/ r.kind = "LowerBound" /\ Gt(prev, t) /\ Lt(curr, t)
                   \/ r.kind = "UpperBound" /\ Lt(prev, t) /\ Gt(curr, t)
            /\ signal.some => signal.val = Mul(curr, r.gain)
            /\ (prev = t \/ curr = t) => signal = None

\* a LowerBound receptor whose prev equals the threshold and whose curr is
\* below it: no signal
C7_Witness ==
    /\ LastIs("Receptor")
    /\ genes[last].kind = "LowerBound"
    /\ prev = genes[last].threshold
    /\ Lt(curr, genes[last].threshold)
    /\ signal = None

\* the genome is the pair <<first, second>> of the given variants, both on the
\* same chemical
PairOn(first, second) ==
    /\ Len(genes) = 2
    /\ genes[1].gene = first
    /\ genes[2].gene = second
    /\ genes[1].chemical = genes[2].chemical

\* C8: in a tick over <<Emitter G1 on X, Receptor G2 on X>> G2 computes curr
\* from the entry G1 wrote in that tick; in the order <<G2, G1>> G2 sees no
\* delta for X (curr = prev) and returns no signal, so a receptor that fires
\* in the first order does not fire in the reversed one.
C8_OrderSensitive ==
    /\ (PairOn("Emitter", "Receptor") /\ LastIs("Receptor")) =>
           LET w == IF Lt(One, genes[1].gain) THEN One ELSE genes[1].gain
           IN  /\ deltas = [x \in {genes[1].chemical} |-> w]
               /\ curr = Sub(prev, w)
               /\ curr # prev
               /\ ReceptorStep(genes[2], map, EmptyMap).out = None
    /\ (PairOn("Receptor", "Emitter") /\ LastIs("Receptor")) =>
           /\ curr = prev
           /\ signal = None
    /\ PairOn("Receptor", "Emitter") => signal = None

\* Emitter then Receptor on the same chemical: the receptor fired
C8_Witness ==
    /\ PairOn("Emitter", "Receptor")
    /\ LastIs("Receptor")
    /\ signal.some

\* the accumulator after the step of gene g (a Receptor writes nothing)
GeneDeltas(g, m, d) ==
    IF g.gene = "Emitter" THEN EmitterStep(g, d)
    ELSE IF g.gene = "Reaction" THEN ReactionStep(g, m, d).deltas
    ELSE d

\* the accumulator after stepping the genes gs in the given order of indices
RECURSIVE Traverse(_, _, _, _)
Traverse(order, gs, m, d) ==
    IF order = <<>> THEN d
    ELSE Traverse(Tail(order), gs, m, GeneDeltas(gs[Head(order)], m, d))

Orderings(n) ==
    {f \in [1..n -> 1..n] : \A i, j \in 1..n : i # j => f[i] # f[j]}

\* C9: for a fixed table and fixed firing genes the accumulator at the end of
\* the traversal is the same for every ordering of the Emitter and Reaction
\* genes.
C9_OrderIndependent ==
    (/\ pos > Len(genes)
     /\ ~panicked
     /\ \A i \in DOMAIN genes : genes[i].gene # "Receptor") =>
        \A order \in Orderings(Len(genes)) :
            Traverse(order, start, map, EmptyMap) = deltas

\* the chemical identifiers a gene references
Refs(g) ==
    IF g.gene = "Reaction"
    THEN {g.kind.chems[i].id : i \in DOMAIN g.kind.chems}
    ELSE {g.chemical}

\* C10: a step of a Reaction or Receptor that references an identifier absent
\* from the table fails fatally, for every identifier it references and on
\* every call.
C10_AbsentIdIsFatal ==
    (/\ last > 0
     /\ genes[last].gene \in {"Reaction", "Receptor"}
     /\ ~(Refs(genes[last]) \subseteq DOMAIN map)) => panicked

\* C11: no gene step modifies the chemical table: after any sequence of
\* Emitter, Reaction and Receptor steps the table is the table of the tick
\* start; and the accumulator after a Receptor step is the one before it.
C11_TableAndReceptorFrame ==
    /\ map = tickMap
    /\ (last > 0 /\ genes[last].gene = "Receptor") => deltas = before

\* a Receptor step made on an accumulator that holds an entry, after which
\* the table and the accumulator are as before
C11_Witness ==
    /\ LastIs("Receptor")
    /\ last > 1
    /\ before # EmptyMap
    /\ genes[last].chemical \notin DOMAIN before

\* x clamped into [0,1]
Clamped(x) == IF Lt(One, x) THEN One ELSE IF Lt(x, Zero) THEN Zero ELSE x

\* C12: when a Catalytic (A+B->A+C) or CatalyticBreakdown (A+B->A) reaction
\* fires and A's identifier differs from B's and C's, the entry of A is
\* neither created nor altered; the extent is still
\* n = min(table[A]/stoich(A), table[B]/stoich(B)); Catalytic changes only the
\* entries of B (subtract) and C (add), CatalyticBreakdown only that of B.
C12_CatalystUntouched ==
    (/\ FiredLast
     /\ ~panicked
     /\ genes[last].kind.type \in {"Catalytic", "CatalyticBreakdown"}
     /\ \A i \in 2..Len(genes[last].kind.chems) :
            genes[last].kind.chems[i].id # genes[last].kind.chems[1].id) =>
        LET kind == genes[last].kind
            a == kind.chems[1]
            b == kind.chems[2]
            n == FMin(Div(map[a.id].concentration, a.concentration),
                      Div(map[b.id].concentration, b.concentration))
            w == {kind.chems[i].id : i \in 2..Len(kind.chems)}
        IN  /\ a.id \in DOMAIN deltas <=> a.id \in DOMAIN before
            /\ a.id \in DOMAIN before => deltas[a.id] = before[a.id]
            /\ DOMAIN deltas = (DOMAIN before) \cup w
            /\ \A x \in (DOMAIN before) \ w : deltas[x] = before[x]
            /\ DistinctIds(kind) =>
                   /\ deltas[b.id] =
                          Clamped(Sub(Entry(before, b.id), Mul(n, b.concentration)))
                   /\ kind.type = "Catalytic" =>
                          deltas[kind.chems[3].id] =
                              Clamped(Add(Entry(before, kind.chems[3].id),
                                          Mul(n, kind.chems[3].concentration)))

\* a Catalytic firing whose extent is limited by the catalyst A: C gained,
\* A has no entry
C12_Witness ==
    /\ FiredLast
    /\ ~panicked
    /\ genes[last].kind.type = "Catalytic"
    /\ genes[last].kind.chems[1].id \notin DOMAIN deltas
    /\ Lt(Ratio(map, genes[last].kind.chems[1]), Ratio(map, genes[last].kind.chems[2]))
    /\ Gt(deltas[genes[last].kind.chems[3].id], Zero)

\* the float fields of a gene
Floats(g) ==
    CASE g.gene = "Emitter" -> {g.gain}
      [] g.gene = "Receptor" -> {g.gain, g.threshold}
      [] g.gene = "Reaction" ->
             {g.kind.chems[i].concentration : i \in DOMAIN g.kind.chems}

Stepped(j) == j < pos \/ (panicked /\ j = pos)

\* C14: stepping a Reaction changes only its own tick counter, never that of
\* another Reaction of the genome or of another genome, and Emitter and
\* Receptor steps change no counter: every counter is the one of the tick
\* start, advanced once if and only if its own gene was stepped.
C14_CountersIndependent ==
    /\ \A j \in DOMAIN genes :
          genes[j].gene = "Reaction" =>
              genes[j].tick =
                  IF ~Stepped(j) THEN start[j].tick
                  ELSE IF start[j].tick + 1 < genes[j].rate THEN start[j].tick + 1
                  ELSE 0
    /\ \A j \in DOMAIN twin : twin[j].gene = "Reaction" => twin[j].tick = 0

\* two Reactions in one genome: the first stepped and its counter advanced,
\* the second not yet stepped and its counter, not 0, as at the tick start
C14_Witness ==
    /\ Len(genes) = 2
    /\ genes[1].gene = "Reaction"
    /\ genes[2].gene = "Reaction"
    /\ pos = 2
    /\ ~panicked
    /\ genes[1].tick # start[1].tick
    /\ genes[2].tick = start[2].tick
    /\ genes[2].tick > 0

\* every Emitter of the genome has a non-negative gain
GainsNonNegative ==
    \A i \in DOMAIN genes :
        genes[i].gene = "Emitter" =>
            ~IsNaN(genes[i].gain) /\ ~Lt(genes[i].gain, Zero)

\* C15 as stated: after any sequence of Emitter and Reaction steps from an
\* empty accumulator every entry is at most 1.0, and at least 0.0 if every
\* Emitter gain is non-negative.
C15_EntriesBounded ==
    \A x \in DOMAIN deltas :
        /\ ~IsNaN(deltas[x])
        /\ ~Gt(deltas[x], One)
        /\ GainsNonNegative => ~Lt(deltas[x], Zero)

\* C15 amended: every entry that is not NaN is at most 1.0, and at least 0.0
\* if every Emitter gain is non-negative; an entry is NaN only when a
\* Reaction with a zero stoichiometric coefficient or an Emitter with a NaN
\* gain is in the genome.
C15_EntriesBoundedOrNaN ==
    \A x \in DOMAIN deltas :
        \/ /\ IsNaN(deltas[x])
           /\ \E i \in DOMAIN genes :
                 \/ genes[i].gene = "Reaction" /\ ZeroStoich(genes[i].kind)
                 \/ genes[i].gene = "Emitter" /\ IsNaN(genes[i].gain)
        \/ /\ ~IsNaN(deltas[x])
           /\ ~Gt(deltas[x], One)
           /\ GainsNonNegative => ~Lt(deltas[x], Zero)

\* an Emitter step whose sum exceeded 1.0, stored as 1.0, in a genome whose
\* gains are non-negative
C15_Witness ==
    /\ LastIs("Emitter")
    /\ GainsNonNegative
    /\ before # EmptyMap
    /\ Gt(Add(Entry(before, genes[last].chemical), genes[last].gain), One)
    /\ deltas[genes[last].chemical] = One

\* C16: for every Reaction built by Reaction::new with a rate in 0..255, in
\* every state between step calls the counter is below the rate when the
\* rate is at least 1 and is 0 when the rate is 0; so the increment tick + 1
\* never exceeds 255 and never overflows the u8 counter.
C16_CounterBelowRate ==
    \A i \in DOMAIN genes :
        genes[i].gene = "Reaction" =>
            /\ genes[i].rate >= 1 => genes[i].tick < genes[i].rate
            /\ genes[i].rate = 0 => genes[i].tick = 0
            /\ genes[i].tick + 1 <= U8 - 1
            /\ Increment(genes[i].tick) = genes[i].tick + 1

\* the reaction of rate 255 after its 255th call: the counter went from 254
\* to 255 without overflow, the body was entered and the counter is 0 again
C16_Witness ==
    /\ genes[1].gene = "Reaction"
    /\ genes[1].rate = U8 - 1
    /\ calls[1] = U8 - 1
    /\ fires[1] = {U8 - 1}
    /\ genes[1].tick = 0
    /\ start[1].tick = U8 - 2
    /\ last = 1

\* C17: a Reaction with rate 0 behaves exactly like a Reaction with rate 1:
\* its body executes on every step call and its counter is 0 after every
\* call.
C17_RateZeroLikeRateOne ==
    \A i \in DOMAIN genes :
        (genes[i].gene = "Reaction" /\ genes[i].rate \in {0, 1}) =>
            /\ fires[i] = 1..calls[i]
            /\ genes[i].tick = 0
            /\ ReactionStep([genes[i] EXCEPT !.rate = 0], map, deltas)
                   = ReactionStep([genes[i] EXCEPT !.rate = 1], map, deltas)

\* a reaction of rate 0 called three times, its body entered and completed
\* every time
C17_Witness ==
    \E i \in DOMAIN genes :
        /\ genes[i].gene = "Reaction"
        /\ genes[i].rate = 0
        /\ last = i
        /\ ~panicked
        /\ calls[i] = 3
        /\ fires[i] = {1, 2, 3}
        /\ deltas # before

\* the last step was a firing Reaction::step that failed on a table lookup
FailedFiring ==
    /\ panicked
    /\ last > 0
    /\ genes[last].gene = "Reaction"
    /\ calls[last] \in fires[last]

\* C18 as stated: when a firing Reaction::step fails on a table lookup, the
\* accumulator holds no write from that reaction, the counter has been reset
\* to 0, and the gene is not in the state it had before the call.
C18_FailedStepChangesGene ==
    FailedFiring =>
        /\ deltas = before
        /\ genes[last].tick = 0
        /\ genes[last] # start[last]

\* C18 amended: when a firing Reaction::step fails on a table lookup, the
\* accumulator holds no write from that reaction and the counter has been
\* reset to 0; for a rate of 2 or more the counter was rate - 1 before the
\* call, so the gene has changed, and for a rate of 0 or 1 the counter was 0
\* before the call, so the gene is as it was.
C18_FailedStepResetsCounter ==
    FailedFiring =>
        /\ deltas = before
        /\ genes[last].tick = 0
        /\ genes[last].rate >= 2 =>
               /\ start[last].tick = genes[last].rate - 1
               /\ genes[last] # start[last]
        /\ genes[last].rate <= 1 => genes[last] = start[last]

\* a reaction of rate 2 or more whose firing call failed on a lookup after
\* an earlier gene had written to the accumulator
C18_Witness ==
    /\ FailedFiring
    /\ genes[last].rate >= 2
    /\ Lookups(genes[last].kind) \ DOMAIN map # {}
    /\ before # EmptyMap
    /\ deltas = before
    /\ start[last].tick = genes[last].rate - 1
    /\ genes[last].tick = 0

====
